---- MODULE Spec2Model ----
(***************************************************************************)
(* Indoor positioning engine: the geometric estimator                      *)
(* (position_estimator.py, config.py), the fingerprint store and KNN       *)
(* pattern matcher (fingerprint_engine.py) and the web status cycle that   *)
(* fuses both (web_track.py).                                              *)
(*                                                                         *)
(* Number representation.  The program computes in binary floating point; *)
(* the model computes in integers with a stated resolution:                *)
(*   - map coordinates are in decimetres (0.1 m);                          *)
(*   - an estimated distance d is carried as d^2 in cm^2 (1e-4 m^2): the   *)
(*     estimator compares, sorts and weights distances, and every one of   *)
(*     those uses is a function of d^2;                                    *)
(*   - a Euclidean pattern distance is carried as its exact square;        *)
(*   - confidences are in percent.                                         *)
(***************************************************************************)
EXTENDS Integers, Sequences, FiniteSets, TLC

VARIABLES
    method,          \* PositionEstimator.method
    last_position,   \* PositionEstimator.last_position (None or <<x, y>>)
    est,             \* outcome of the latest estimator call
    last_good,       \* position returned by the latest estimate call that had enough beacons
    fingerprint_db,  \* fingerprint_engine.fingerprint_db: the records in dict (insertion) order
    db_file,         \* logs/fingerprint_db.json
    resp,            \* outcome of the latest fingerprint operation
    added,           \* per label, the record most recently given for it
    rssi_buffer,             \* web_track.rssi_buffer
    position_buffer,         \* web_track.position_buffer
    last_stable_position,    \* web_track.last_stable_position
    last_reported_position,  \* web_track.last_reported_position
    tracking_data,           \* web_track.tracking_data
    status,                  \* what the latest status cycle computed and returned
    now,                     \* time.time(), in clock ticks (CLOCK_HZ per second)
    cycles,                  \* number of status cycles so far
    history,                 \* per status cycle, its raw RSSI and the position derived
    is_tracking,             \* app.is_tracking
    running,                 \* per server thread, the call it is executing
    trajectory,              \* app.trajectory: the points, as <<x, y>>
    scanner,                 \* the ArubaBLEScanner: rssi_history and last_rssi, with the
                             \* beacons the latest scan detected and the number of scans
    late                     \* points the background loop appended while is_tracking was
                             \* false, and whether the trajectory was cleared during the
                             \* latest background cycle

estimator_vars == <<method, last_position, est, last_good>>
store_vars == <<fingerprint_db, db_file, resp, added>>
smoothing_vars == <<rssi_buffer, position_buffer, last_stable_position, last_reported_position>>
track_vars == <<smoothing_vars, tracking_data, status, now, cycles, history>>
app_vars == <<is_tracking, trajectory, late, scanner>>
server_vars == <<app_vars, running>>
vars == <<estimator_vars, store_vars, track_vars, server_vars>>

\* Python's None where a position (a pair) is expected
None == <<>>

Min(a, b) == IF a < b THEN a ELSE b
Max(a, b) == IF a > b THEN a ELSE b

RECURSIVE Pow10(_)
Pow10(n) == IF n <= 0 THEN 1 ELSE 10 * Pow10(n - 1)

(***************************************************************************)
(* config.py                                                               *)
(***************************************************************************)
\* ARUBA_APS[name]["position"], decimetres
AP_POSITIONS ==
    [ap \in {"AP-12", "AP-11", "AP-XX", "AP-09", "AP-07", "AP-13", "AP-7413"} |->
        CASE ap = "AP-12"   -> <<50, 35>>
          [] ap = "AP-11"   -> <<253, 35>>
          [] ap = "AP-XX"   -> <<382, 35>>
          [] ap = "AP-09"   -> <<473, 35>>
          [] ap = "AP-07"   -> <<587, 35>>
          [] ap = "AP-13"   -> <<670, 165>>
          [] ap = "AP-7413" -> <<91, 31>>]

\* the key order of ARUBA_APS
AP_ORDER == <<"AP-12", "AP-11", "AP-XX", "AP-09", "AP-07", "AP-13", "AP-7413">>

TX_POWER == -59
\* 10 * PATH_LOSS_EXPONENT (2.5)
PATH_LOSS_X10 == 25
RSSI_MIN == -100
MIN_AP_FOR_TRILATERATION == 3
\* metres
MAX_DISTANCE == 30
\* MAX_DISTANCE squared, cm^2
MAX_DISTANCE_SQ == MAX_DISTANCE * MAX_DISTANCE * 10000

\* decimetres
MAP_BOUNDS == [min_x |-> -2 * 10, max_x |-> 75 * 10, min_y |-> -3 * 10, max_y |-> 22 * 10]

\* round(1000 * 10^(k/25)) for k = 0 .. 24 (entry k+1)
POW10_FRAC ==
    <<1000, 1096, 1202, 1318, 1445, 1585, 1738, 1905, 2089, 2291, 2512, 2754, 3020,
      3311, 3631, 3981, 4365, 4786, 5248, 5754, 6310, 6918, 7586, 8318, 9120>>

\* 10 ** ((TX_POWER - rssi) / (10 * PATH_LOSS_EXPONENT)), squared, in cm^2:
\* 10^(e/25) with e = 2 * (TX_POWER - rssi) + 4 * 25, split into the whole and the
\* fractional part of the exponent.
PathLossSq(rssi) ==
    LET e == 2 * (TX_POWER - rssi) + 4 * PATH_LOSS_X10
        q == e \div PATH_LOSS_X10
        k == e % PATH_LOSS_X10
    IN  IF q >= 3 THEN POW10_FRAC[k + 1] * Pow10(q - 3)
                  ELSE POW10_FRAC[k + 1] \div Pow10(3 - q)

rssi_to_distance_floor_unclamped(rssi) ==
    IF rssi >= 0 \/ rssi < RSSI_MIN
    THEN MAX_DISTANCE_SQ
    ELSE IF rssi = RSSI_MIN THEN PathLossSq(rssi)
    ELSE Min(PathLossSq(rssi), MAX_DISTANCE_SQ)

\* the distance of an RSSI sample, as its square in cm^2
rssi_to_distance(rssi) ==
    IF rssi >= 0 \/ rssi < RSSI_MIN
    THEN MAX_DISTANCE_SQ
    ELSE Min(PathLossSq(rssi), MAX_DISTANCE_SQ)

(***************************************************************************)
(* position_estimator.py                                                   *)
(***************************************************************************)
\* A reading (rssi_dict) is a function from beacon names to RSSI (dBm).

distances_at_max(reading) ==
    LET ok == {ap \in DOMAIN reading :
                 /\ reading[ap] > -100
                 /\ ap \in DOMAIN AP_POSITIONS
                 /\ rssi_to_distance(reading[ap]) <= MAX_DISTANCE_SQ}
    IN  [ap \in ok |-> rssi_to_distance(reading[ap])]

distances_of_all_known(reading) ==
    LET ok == {ap \in DOMAIN reading : ap \in DOMAIN AP_POSITIONS}
    IN  [ap \in ok |-> rssi_to_distance(reading[ap])]

\* estimate, lines 46-51: the beacons kept, with their distances
distances_of(reading) ==
    LET ok == {ap \in DOMAIN reading :
                 /\ reading[ap] > -100
                 /\ ap \in DOMAIN AP_POSITIONS
                 /\ rssi_to_distance(reading[ap]) < MAX_DISTANCE_SQ}
    IN  [ap \in ok |-> rssi_to_distance(reading[ap])]

\* 1 / distance^2 in m^-2, times 10^4
Weight(d2) == (10^8) \div d2

RECURSIVE SumOver(_, _)
SumOver(f, S) ==
    IF S = {} THEN 0
    ELSE LET a == CHOOSE a \in S : TRUE IN f[a] + SumOver(f, S \ {a})

_weighted_centroid(distances) ==
    LET used == {ap \in DOMAIN distances : distances[ap] > 0}
        w  == [ap \in used |-> Weight(distances[ap])]
        wx == [ap \in used |-> AP_POSITIONS[ap][1] * w[ap]]
        wy == [ap \in used |-> AP_POSITIONS[ap][2] * w[ap]]
        total_weight == SumOver(w, used)
    IN  IF total_weight > 0
        THEN <<SumOver(wx, used) \div total_weight, SumOver(wy, used) \div total_weight>>
        ELSE None

IndexOf(ap) == CHOOSE i \in 1..Len(AP_ORDER) : AP_ORDER[i] = ap

\* sorted(distances.items(), key=distance): a stable sort, ties in dict order
RECURSIVE SortedAPs(_, _)
SortedAPs(distances, S) ==
    IF S = {} THEN <<>>
    ELSE LET first == CHOOSE a \in S : \A b \in S :
                         \/ distances[a] < distances[b]
                         \/ distances[a] = distances[b] /\ IndexOf(a) <= IndexOf(b)
         IN  <<first>> \o SortedAPs(distances, S \ {first})

_trilateration_without_y_terms(distances) ==
    LET all == SortedAPs(distances, DOMAIN distances)
        sorted_aps == SubSeq(all, 1, Min(3, Len(all)))
    IN  IF Len(sorted_aps) < 3 THEN _weighted_centroid(distances)
        ELSE
        LET p1 == AP_POSITIONS[sorted_aps[1]]
            p2 == AP_POSITIONS[sorted_aps[2]]
            p3 == AP_POSITIONS[sorted_aps[3]]
            \* squared radii in dm^2
            r1 == distances[sorted_aps[1]] \div 100
            r2 == distances[sorted_aps[2]] \div 100
            r3 == distances[sorted_aps[3]] \div 100
            a11 == 2 * (p2[1] - p1[1])
            a12 == 2 * (p2[2] - p1[2])
            a21 == 2 * (p3[1] - p1[1])
            a22 == 2 * (p3[2] - p1[2])
            b1 == r1 - r2 - p1[1] * p1[1] + p2[1] * p2[1]
            b2 == r1 - r3 - p1[1] * p1[1] + p3[1] * p3[1]
            det == a11 * a22 - a12 * a21
        IN  IF det = 0 THEN _weighted_centroid(distances)
            ELSE <<(b1 * a22 - a12 * b2) \div det, (a11 * b2 - a21 * b1) \div det>>

_trilateration_centroid_of_three(distances) ==
    LET all == SortedAPs(distances, DOMAIN distances)
        sorted_aps == SubSeq(all, 1, Min(3, Len(all)))
    IN  IF Len(sorted_aps) < 3 THEN _weighted_centroid(distances)
        ELSE
        LET p1 == AP_POSITIONS[sorted_aps[1]]
            p2 == AP_POSITIONS[sorted_aps[2]]
            p3 == AP_POSITIONS[sorted_aps[3]]
            \* squared radii in dm^2
            r1 == distances[sorted_aps[1]] \div 100
            r2 == distances[sorted_aps[2]] \div 100
            r3 == distances[sorted_aps[3]] \div 100
            a11 == 2 * (p2[1] - p1[1])
            a12 == 2 * (p2[2] - p1[2])
            a21 == 2 * (p3[1] - p1[1])
            a22 == 2 * (p3[2] - p1[2])
            b1 == r1 - r2 - p1[1] * p1[1] + p2[1] * p2[1] - p1[2] * p1[2] + p2[2] * p2[2]
            b2 == r1 - r3 - p1[1] * p1[1] + p3[1] * p3[1] - p1[2] * p1[2] + p3[2] * p3[2]
            det == a11 * a22 - a12 * a21
        IN  IF det = 0
            THEN _weighted_centroid([ap \in {sorted_aps[n] : n \in 1..3} |-> distances[ap]])
            ELSE <<(b1 * a22 - a12 * b2) \div det, (a11 * b2 - a21 * b1) \div det>>

_trilateration(distances) ==
    LET all == SortedAPs(distances, DOMAIN distances)
        sorted_aps == SubSeq(all, 1, Min(3, Len(all)))
    IN  IF Len(sorted_aps) < 3 THEN _weighted_centroid(distances)
        ELSE
        LET p1 == AP_POSITIONS[sorted_aps[1]]
            p2 == AP_POSITIONS[sorted_aps[2]]
            p3 == AP_POSITIONS[sorted_aps[3]]
            \* squared radii in dm^2
            r1 == distances[sorted_aps[1]] \div 100
            r2 == distances[sorted_aps[2]] \div 100
            r3 == distances[sorted_aps[3]] \div 100
            a11 == 2 * (p2[1] - p1[1])
            a12 == 2 * (p2[2] - p1[2])
            a21 == 2 * (p3[1] - p1[1])
            a22 == 2 * (p3[2] - p1[2])
            b1 == r1 - r2 - p1[1] * p1[1] + p2[1] * p2[1] - p1[2] * p1[2] + p2[2] * p2[2]
            b2 == r1 - r3 - p1[1] * p1[1] + p3[1] * p3[1] - p1[2] * p1[2] + p3[2] * p3[2]
            det == a11 * a22 - a12 * a21
        IN  IF det = 0 THEN _weighted_centroid(distances)
            ELSE <<(b1 * a22 - a12 * b2) \div det, (a11 * b2 - a21 * b1) \div det>>

\* scipy's Nelder-Mead minimizer decides the result: nm is the point it returns
_least_squares(distances, nm) == nm

clamp_x_only(position) ==
    <<Max(MAP_BOUNDS.min_x, Min(position[1], MAP_BOUNDS.max_x)), position[2]>>

\* estimate, lines 70-72
clamp(position) ==
    <<Max(MAP_BOUNDS.min_x, Min(position[1], MAP_BOUNDS.max_x)),
      Max(MAP_BOUNDS.min_y, Min(position[2], MAP_BOUNDS.max_y))>>

estimate_returns_none(m, last, distances, nm) ==
    IF Cardinality(DOMAIN distances) < MIN_AP_FOR_TRILATERATION
    THEN [ret |-> None, last_position |-> last, computed |-> FALSE]
    ELSE LET position == CASE m = "weighted_centroid" -> _weighted_centroid(distances)
                           [] m = "trilateration"     -> _trilateration(distances)
                           [] m = "least_squares"     -> _least_squares(distances, nm)
                           [] OTHER                   -> _weighted_centroid(distances)
         IN  IF position # None
             THEN [ret |-> clamp(position), last_position |-> clamp(position), computed |-> TRUE]
             ELSE [ret |-> None, last_position |-> last, computed |-> TRUE]

\* PositionEstimator.estimate from the distances kept (lines 53-75): the value
\* returned, the cache afterwards, and whether a position was computed
estimate(m, last, distances, nm) ==
    IF Cardinality(DOMAIN distances) < MIN_AP_FOR_TRILATERATION
    THEN [ret |-> last, last_position |-> last, computed |-> FALSE]
    ELSE LET position == CASE m = "weighted_centroid" -> _weighted_centroid(distances)
                           [] m = "trilateration"     -> _trilateration(distances)
                           [] m = "least_squares"     -> _least_squares(distances, nm)
                           [] OTHER                   -> _weighted_centroid(distances)
         IN  IF position # None
             THEN [ret |-> clamp(position), last_position |-> clamp(position), computed |-> TRUE]
             ELSE [ret |-> None, last_position |-> last, computed |-> TRUE]

(***************************************************************************)
(* Inputs of the estimator                                                 *)
(***************************************************************************)
\* beacons of a reading: three corridor beacons (colinear), one off the corridor
\* line, and one name that is not in AP_POSITIONS
ScanAPs == {"AP-12", "AP-11", "AP-XX", "AP-13"}
UnknownAP == "AP-99"
\* floor, just out of range (distance = MAX_DISTANCE), in range (far, near), non-negative
RssiInputs == {-100, -96, -75, -62, 0}
\* the unknown beacon is always heard well
Readings ==
    {[ap \in ScanAPs \cup {UnknownAP} |-> IF ap = UnknownAP THEN -62 ELSE f[ap]] :
        f \in [ScanAPs -> RssiInputs]}
\* points the minimizer may return (decimetres), inside and outside the map
NM_RESULTS == {<<300, 50>>, <<-100, 35>>, <<900, 400>>, <<40, -80>>}
Methods == {"weighted_centroid", "trilateration", "least_squares", "centroid"}

\* the beacons of a reading that report a valid distance: known coordinates, RSSI
\* above the floor, modelled distance other than the maximum
ValidBeacons(reading) ==
    {ap \in DOMAIN reading :
        /\ ap \in DOMAIN AP_POSITIONS
        /\ reading[ap] > RSSI_MIN
        /\ rssi_to_distance(reading[ap]) # MAX_DISTANCE_SQ}

InitEstimatorVars ==
    /\ last_position = None
    /\ est = [op |-> "init", ret |-> None, computed |-> FALSE, nvalid |-> 0]
    /\ last_good = None

InitStoreVars ==
    /\ fingerprint_db = <<>>
    /\ db_file = [exists |-> FALSE, content |-> <<>>, loadable |-> TRUE]
    /\ resp = [op |-> "init"]
    /\ added = {}

\* the threads of a server: the background scan loop of app.py and the request
\* handlers of a threaded Flask server
Threads == {"background", "request1", "request2"}
Idle == [at |-> "idle"]

InitServerVars ==
    /\ is_tracking = FALSE
    /\ running = [t \in Threads |-> Idle]
    /\ trajectory = <<>>
    /\ late = [points |-> 0, cleared |-> FALSE]
    /\ scanner = [rssi_history |-> [ap \in DOMAIN AP_POSITIONS |-> <<>>],
                  last_rssi |-> <<>>, detected |-> {}, scans |-> 0]

\* web_track.py computes positions in metres.  The interpolation of a mean of
\* up to 10 integer RSSI values between calibration points is a multiple of
\* 1 / POS_UNIT metres (2520 = lcm(1..10), 30 = lcm of the RSSI gaps); a position
\* is carried as the exact rational num / (POS_UNIT * den) metres in lowest terms
POS_UNIT == 2520 * 30

InitTrackVars ==
    /\ rssi_buffer = <<>>
    /\ position_buffer = <<>>
    /\ last_stable_position = [num |-> 0, den |-> 1]
    /\ last_reported_position = [num |-> 0, den |-> 1]
    /\ tracking_data = [active |-> FALSE, start_time |-> None, trajectory |-> <<>>,
                        current |-> None]
    /\ status = [op |-> "init"]
    /\ now = 0
    /\ cycles = 0
    /\ history = <<>>

InitEstimator ==
    /\ method \in Methods
    /\ InitEstimatorVars
    /\ InitStoreVars
    /\ InitTrackVars
    /\ InitServerVars

\* what a call of estimate does to the estimator
EstimateCall(reading, nm) ==
    LET r == estimate(method, last_position, distances_of(reading), nm)
        n == Cardinality(ValidBeacons(reading))
    IN  /\ last_position' = r.last_position
        /\ est' = [op |-> "estimate", ret |-> r.ret, computed |-> r.computed, nvalid |-> n]
        /\ last_good' = IF n >= MIN_AP_FOR_TRILATERATION THEN r.ret ELSE last_good
        /\ UNCHANGED method

\* a call of estimate while nothing else runs
Estimate(reading, nm) ==
    /\ EstimateCall(reading, nm)
    /\ UNCHANGED <<store_vars, track_vars, server_vars>>

\* PositionEstimator.clear_history
ClearHistory ==
    /\ last_position' = None
    /\ est' = [op |-> "clear_history", ret |-> None, computed |-> FALSE, nvalid |-> 0]
    /\ last_good' = None
    /\ UNCHANGED <<method, store_vars, track_vars, server_vars>>

EstimateStep ==
    \E reading \in Readings :
        \E nm \in (IF method = "least_squares" THEN NM_RESULTS ELSE {None}) :
            Estimate(reading, nm)

\* any sequence of estimate calls
NextEstimate == EstimateStep
SpecEstimate == InitEstimator /\ [][NextEstimate]_vars

\* any sequence of estimate and clear_history calls
NextEstimator == EstimateStep \/ ClearHistory
SpecEstimator == InitEstimator /\ [][NextEstimator]_vars

InBounds(p) ==
    /\ MAP_BOUNDS.min_x <= p[1] /\ p[1] <= MAP_BOUNDS.max_x
    /\ MAP_BOUNDS.min_y <= p[2] /\ p[2] <= MAP_BOUNDS.max_y

C2_WithinBounds ==
    /\ (est.op = "estimate" /\ est.ret # None) => InBounds(est.ret)
    /\ last_position # None => InBounds(last_position)

\* a computed position on the boundary: the clamp acted
C2_Witness ==
    /\ est.op = "estimate"
    /\ est.computed
    /\ est.ret # None
    /\ est.ret[2] \in {MAP_BOUNDS.min_y, MAP_BOUNDS.max_y}
    /\ last_position = est.ret

\* C3: a position is computed (and the cache overwritten) only in a call with at
\* least MIN_AP_FOR_TRILATERATION valid beacons; unknown beacons, beacons at or
\* below the floor and beacons at the maximum distance do not count.
C3_ComputesOnlyWithEnough ==
    (est.op = "estimate" /\ est.computed) => est.nvalid >= MIN_AP_FOR_TRILATERATION

C3_Witness ==
    /\ est.op = "estimate"
    /\ est.computed
    /\ est.nvalid = MIN_AP_FOR_TRILATERATION
    /\ last_position = est.ret

(***************************************************************************)
(* fingerprint_engine.py                                                   *)
(***************************************************************************)
\* A pattern is a sequence of RSSI values.  A record of the store is
\*   [location, pattern, samples, raw_patterns, web]
\* where web is TRUE for a record written by the web save endpoint (keys avg,
\* min, max and no raw_patterns) and FALSE for one made by collect_fingerprint.

\* Python's None where a label (a string) is expected
NoLocation == "None"

\* float('inf'): above every sum of squares the model can form
INF == 2000000000

RECURSIVE SumSq(_, _, _)
SumSq(p1, p2, n) ==
    IF n = 0 THEN 0
    ELSE (p1[n] - p2[n]) * (p1[n] - p2[n]) + SumSq(p1, p2, n - 1)

euclidean_distance_padded(pattern1, pattern2) ==
    IF pattern1 = <<>> \/ pattern2 = <<>> THEN INF
    ELSE LET n == Max(Len(pattern1), Len(pattern2))
             pad(p) == [i \in 1..n |-> IF i <= Len(p) THEN p[i] ELSE 0]
         IN  SumSq(pad(pattern1), pad(pattern2), n)

\* the Euclidean distance, as its square
euclidean_distance(pattern1, pattern2) ==
    IF pattern1 = <<>> \/ pattern2 = <<>> THEN INF
    ELSE SumSq(pattern1, pattern2, Min(Len(pattern1), Len(pattern2)))

RECURSIVE Dot(_, _, _)
Dot(p1, p2, n) == IF n = 0 THEN 0 ELSE p1[n] * p2[n] + Dot(p1, p2, n - 1)

cosine_similarity_whole_norms(pattern1, pattern2) ==
    IF pattern1 = <<>> \/ pattern2 = <<>> THEN [num |-> 0, den1 |-> 1, den2 |-> 1]
    ELSE LET min_len == Min(Len(pattern1), Len(pattern2))
             norm1 == Dot(pattern1, pattern1, min_len)
             norm2 == Dot(pattern2, pattern2, min_len)
         IN  IF Dot(pattern1, pattern1, Len(pattern1)) = 0
                \/ Dot(pattern2, pattern2, Len(pattern2)) = 0
             THEN [num |-> 0, den1 |-> 1, den2 |-> 1]
             ELSE [num |-> Dot(pattern1, pattern2, min_len), den1 |-> norm1, den2 |-> norm2]

\* the cosine similarity num / sqrt(den1 * den2), as its three integers;
\* the value 0 is num = 0 over 1
cosine_similarity(pattern1, pattern2) ==
    IF pattern1 = <<>> \/ pattern2 = <<>> THEN [num |-> 0, den1 |-> 1, den2 |-> 1]
    ELSE LET min_len == Min(Len(pattern1), Len(pattern2))
             norm1 == Dot(pattern1, pattern1, min_len)
             norm2 == Dot(pattern2, pattern2, min_len)
         IN  IF norm1 = 0 \/ norm2 = 0 THEN [num |-> 0, den1 |-> 1, den2 |-> 1]
             ELSE [num |-> Dot(pattern1, pattern2, min_len), den1 |-> norm1, den2 |-> norm2]

\* lines 133-143: one candidate per record, in dict order
candidates_of(db, current_pattern) ==
    [i \in 1..Len(db) |->
        [location   |-> db[i].location,
         distance   |-> euclidean_distance(current_pattern, db[i].pattern),
         similarity |-> cosine_similarity(current_pattern, db[i].pattern),
         pattern    |-> db[i].pattern]]

\* list.sort(key=distance): stable, ascending
RECURSIVE sort_by_distance_desc(_)
sort_by_distance_desc(cs) ==
    IF cs = <<>> THEN <<>>
    ELSE LET i == CHOOSE i \in 1..Len(cs) :
                    /\ \A j \in 1..Len(cs) : cs[i].distance >= cs[j].distance
                    /\ \A j \in 1..(i - 1) : cs[j].distance < cs[i].distance
         IN  <<cs[i]>> \o sort_by_distance_desc(SubSeq(cs, 1, i - 1) \o SubSeq(cs, i + 1, Len(cs)))

RECURSIVE sort_by_distance(_)
sort_by_distance(cs) ==
    IF cs = <<>> THEN <<>>
    ELSE LET i == CHOOSE i \in 1..Len(cs) :
                    /\ \A j \in 1..Len(cs) : cs[i].distance <= cs[j].distance
                    /\ \A j \in 1..(i - 1) : cs[j].distance > cs[i].distance
         IN  <<cs[i]>> \o sort_by_distance(SubSeq(cs, 1, i - 1) \o SubSeq(cs, i + 1, Len(cs)))

confidence_inclusive(distance) ==
    IF distance <= 5 * 5 THEN 95
    ELSE IF distance <= 10 * 10 THEN 80
    ELSE IF distance <= 20 * 20 THEN 60
    ELSE 30

\* lines 158-165, in percent; the distance is given as its square
confidence_of(distance) ==
    IF distance < 5 * 5 THEN 95
    ELSE IF distance < 10 * 10 THEN 80
    ELSE IF distance < 20 * 20 THEN 60
    ELSE 30

knn_no_query_guard(db, current_pattern, k) ==
    IF db = <<>>
    THEN [location |-> NoLocation, confidence |-> 0, top_k |-> <<>>]
    ELSE LET distances == sort_by_distance(candidates_of(db, current_pattern))
             top_k == SubSeq(distances, 1, Min(k, Len(distances)))
         IN  [location |-> top_k[1].location,
              confidence |-> confidence_of(top_k[1].distance),
              top_k |-> top_k]

\* estimate_location_knn, for k >= 1
estimate_location_knn(db, current_pattern, k) ==
    IF db = <<>> \/ current_pattern = <<>>
    THEN [location |-> NoLocation, confidence |-> 0, top_k |-> <<>>]
    ELSE LET distances == sort_by_distance(candidates_of(db, current_pattern))
             top_k == SubSeq(distances, 1, Min(k, Len(distances)))
         IN  IF top_k = <<>>
             THEN [location |-> NoLocation, confidence |-> 0, top_k |-> <<>>]
             ELSE [location |-> top_k[1].location,
                   confidence |-> confidence_of(top_k[1].distance),
                   top_k |-> top_k]

Labels(db) == {db[i].location : i \in 1..Len(db)}

put_appends(db, location, record) == Append(db, record)

\* fingerprint_db[location] = record: a dict keeps the position of a key it has
put(db, location, record) ==
    IF \E i \in 1..Len(db) : db[i].location = location
    THEN [i \in 1..Len(db) |-> IF db[i].location = location THEN record ELSE db[i]]
    ELSE Append(db, record)

\* save_db: the whole mapping is written.  A file is loadable when open and
\* json.load succeed on it.
save_db(db) == [exists |-> TRUE, content |-> db, loadable |-> TRUE]

load_db_keeps_store(db, file) ==
    IF file.exists
    THEN IF file.loadable THEN file.content ELSE db
    ELSE db

\* load_db: the store after the load (also the value returned)
load_db(db, file) ==
    IF file.exists
    THEN IF file.loadable THEN file.content ELSE <<>>
    ELSE db

\* Python's round(s / n) for integers s and n > 0: to nearest, ties to even
round_div(s, n) ==
    LET q == s \div n
        r == s % n
    IN  IF 2 * r < n THEN q
        ELSE IF 2 * r > n THEN q + 1
        ELSE IF q % 2 = 0 THEN q ELSE q + 1

RECURSIVE SeqSum(_)
SeqSum(xs) == IF xs = <<>> THEN 0 ELSE Head(xs) + SeqSum(Tail(xs))

avg_pattern_of_common_ranks(all_patterns, top_n) ==
    LET InAll(i) == \A j \in 1..Len(all_patterns) : i <= Len(all_patterns[j])
        ranks == SelectSeq([i \in 1..top_n |-> i], InAll)
    IN  [r \in 1..Len(ranks) |->
            round_div(SeqSum([j \in 1..Len(all_patterns) |-> all_patterns[j][ranks[r]]]),
                      Len(all_patterns))]

\* lines 77-81: the rank-wise rounded mean over the patterns that have the rank
avg_pattern_of(all_patterns, top_n) ==
    LET HasValues(i) == \E j \in 1..Len(all_patterns) : i <= Len(all_patterns[j])
        values(i) == LET Has(p) == i <= Len(p)
                         ps == SelectSeq(all_patterns, Has)
                     IN  [j \in 1..Len(ps) |-> ps[j][i]]
        ranks == SelectSeq([i \in 1..top_n |-> i], HasValues)
    IN  [r \in 1..Len(ranks) |-> round_div(SeqSum(values(ranks[r])), Len(values(ranks[r])))]

collect_fingerprint_counts_vectors(location, samples, top_n, scans) ==
    LET NonEmpty(p) == p # <<>>
        all_patterns == SelectSeq(scans, NonEmpty)
    IN  IF all_patterns = <<>> THEN [ok |-> FALSE]
        ELSE [ok |-> TRUE,
              fingerprint |-> [location     |-> location,
                               pattern      |-> avg_pattern_of(all_patterns, top_n),
                               samples      |-> Len(all_patterns),
                               raw_patterns |-> all_patterns,
                               web          |-> FALSE]]

\* collect_fingerprint; scans are the results of its scan_rssi_pattern calls,
\* one per requested sample
collect_fingerprint(location, samples, top_n, scans) ==
    LET NonEmpty(p) == p # <<>>
        all_patterns == SelectSeq(scans, NonEmpty)
    IN  IF all_patterns = <<>> THEN [ok |-> FALSE]
        ELSE [ok |-> TRUE,
              fingerprint |-> [location     |-> location,
                               pattern      |-> avg_pattern_of(all_patterns, top_n),
                               samples      |-> samples,
                               raw_patterns |-> all_patterns,
                               web          |-> FALSE]]

\* add_fingerprint
AddFingerprint(location, fingerprint) ==
    /\ fingerprint_db' = put(fingerprint_db, location, fingerprint)
    /\ db_file' = save_db(fingerprint_db')
    /\ added' = {r \in added : r.location # location} \cup {fingerprint}

(***************************************************************************)
(* web_track.py: the fingerprint endpoints                                 *)
(***************************************************************************)
\* top_n of the scans made by the web endpoints
WEB_TOP_N == 15

\* POST /api/fingerprint/collect
FingerprintCollect(location, samples, scans) ==
    /\ UNCHANGED <<estimator_vars, track_vars, server_vars>>
    /\ IF location = ""
       THEN /\ resp' = [op |-> "collect", status |-> 400, valid |-> 0]
            /\ UNCHANGED <<fingerprint_db, db_file, added>>
       ELSE LET c == collect_fingerprint(location, samples, WEB_TOP_N, scans)
                NonEmpty(p) == p # <<>>
                valid == Len(SelectSeq(scans, NonEmpty))
            IN  IF c.ok
                THEN /\ AddFingerprint(location, c.fingerprint)
                     /\ resp' = [op |-> "collect", status |-> 200, valid |-> valid,
                                 location |-> location, samples |-> samples]
                ELSE /\ resp' = [op |-> "collect", status |-> 500, valid |-> valid]
                     /\ UNCHANGED <<fingerprint_db, db_file, added>>

\* lines 273-281: the record written for one entry of the request; fp_data gives
\* fp_data.get("pattern", []) and the length of fp_data.get("samples", [])
save_record(location, fp_data) ==
    [location     |-> location,
     pattern      |-> fp_data.pattern,
     samples      |-> fp_data.nsamples,
     raw_patterns |-> <<>>,
     web          |-> TRUE]

RECURSIVE save_all(_, _)
save_all(db, data) ==
    IF data = <<>> THEN db
    ELSE save_all(put(db, Head(data).location, save_record(Head(data).location, Head(data))),
                  Tail(data))

\* POST /api/fingerprint/save; data is the request's entries in order, their
\* labels distinct (the keys of a JSON object)
FingerprintSave(data) ==
    /\ UNCHANGED <<estimator_vars, track_vars, server_vars>>
    /\ fingerprint_db' = save_all(fingerprint_db, data)
    /\ db_file' = save_db(fingerprint_db')
    /\ added' = {r \in added : \A i \in 1..Len(data) : data[i].location # r.location}
                    \cup {save_record(data[i].location, data[i]) : i \in 1..Len(data)}
    /\ resp' = [op |-> "save", status |-> 200, valid |-> 0]

(***************************************************************************)
(* The fingerprint store under the web endpoints                           *)
(***************************************************************************)
\* a collection requests 0 .. MaxSamples scans
MaxSamples == 2
StoreLabels == {"7413", "EV"}
\* what one scan_rssi_pattern call returns: nothing, or a ranked RSSI vector
ScanOutcomes == {<<>>, <<-50, -61>>, <<-53>>}
\* fp_data of a save request: its pattern and the number of its samples
SaveData == [pattern : {<<>>, <<-50, -61>>}, nsamples : {0, 2}]

RECURSIVE SeqsOf(_, _)
SeqsOf(S, n) ==
    IF n = 0 THEN {<<>>}
    ELSE {Append(q, x) : q \in SeqsOf(S, n - 1), x \in S}

SaveEntries ==
    {[location |-> l, pattern |-> d.pattern, nsamples |-> d.nsamples] :
        l \in StoreLabels, d \in SaveData}
\* requests of one or two entries
SaveRequests ==
    SeqsOf(SaveEntries, 1) \cup {q \in SeqsOf(SaveEntries, 2) : q[1].location # q[2].location}

InitStore ==
    /\ method = "weighted_centroid"
    /\ InitEstimatorVars
    /\ InitStoreVars
    /\ InitTrackVars
    /\ InitServerVars

CollectStep ==
    \E location \in StoreLabels \cup {""}, samples \in 0..MaxSamples :
        \E scans \in SeqsOf(ScanOutcomes, samples) :
            FingerprintCollect(location, samples, scans)

SaveStep == \E data \in SaveRequests : FingerprintSave(data)

NextStore == CollectStep \/ SaveStep
SpecStore == InitStore /\ [][NextStore]_vars

\* C8: the store holds exactly one record per label ever added, and it is the
\* record most recently given for that label (so an add for a label the store
\* has changes neither the record count nor any other label's record).
C8_OneRecordPerLabel ==
    /\ \A i, j \in 1..Len(fingerprint_db) :
          fingerprint_db[i].location = fingerprint_db[j].location => i = j
    /\ {fingerprint_db[i] : i \in 1..Len(fingerprint_db)} = added

\* a label was added twice with different records, by both endpoints
C8_Witness ==
    /\ Len(fingerprint_db) = 2
    /\ resp.op = "collect" /\ resp.status = 200
    /\ \E i \in 1..2 : fingerprint_db[i].web
    /\ \E i \in 1..2 : ~fingerprint_db[i].web /\ Len(fingerprint_db[i].raw_patterns) = 2

\* a record behind which there is no successful sample
ZeroSamples(r) == IF r.web THEN r.samples = 0 ELSE r.raw_patterns = <<>>

\* C9: no record with zero successful samples is in the store, and a collection
\* whose scans all yield no valid vector leaves the store and the file unchanged.
C9_NoZeroSampleRecord ==
    [][/\ \A i \in 1..Len(fingerprint_db') : ~ZeroSamples(fingerprint_db'[i])
       /\ (resp'.op = "collect" /\ resp'.valid = 0)
             => (fingerprint_db' = fingerprint_db /\ db_file' = db_file)]_vars

(***************************************************************************)
(* The pattern matcher over a store that grows                             *)
(***************************************************************************)
\* k of a query is 1 .. MaxK (the callers pass 3)
MaxK == 3
KnnLabels == {"7413", "7412", "EV"}
\* stored signatures: one a proper prefix of another, one far from both
KnnStorePatterns == {<<-50, -60>>, <<-50, -60, -70>>, <<-62, -76>>}
\* queries: the stored signatures, the empty one, and signatures at distance
\* 5, 10 and sqrt(5) from <<-50, -60>> (distance 20: <<-62, -76>>)
KnnQueries == KnnStorePatterns \cup {<<>>, <<-53, -64>>, <<-56, -68>>, <<-51, -62>>}

\* a direct add_fingerprint call with a fingerprint as collect_fingerprint makes it
KnnAddStep ==
    \E location \in KnnLabels, p \in KnnStorePatterns :
        /\ AddFingerprint(location, [location |-> location, pattern |-> p, samples |-> 1,
                                     raw_patterns |-> <<p>>, web |-> FALSE])
        /\ resp' = [op |-> "add"]
        /\ UNCHANGED <<estimator_vars, track_vars, server_vars>>

\* a web save of a record without a pattern
KnnSaveStep ==
    \E location \in KnnLabels :
        FingerprintSave(<<[location |-> location, pattern |-> <<>>, nsamples |-> 0]>>)

\* a call of estimate_location_knn
Knn(current_pattern, k) ==
    LET r == estimate_location_knn(fingerprint_db, current_pattern, k)
    IN  /\ resp' = [op |-> "knn", query |-> current_pattern, k |-> k,
                    location |-> r.location, confidence |-> r.confidence, top_k |-> r.top_k]
        /\ UNCHANGED <<estimator_vars, track_vars, server_vars, fingerprint_db, db_file, added>>

KnnQueryStep == \E q \in KnnQueries, k \in 1..MaxK : Knn(q, k)

NextKnn == KnnAddStep \/ KnnSaveStep \/ KnnQueryStep
SpecKnn == InitStore /\ [][NextKnn]_vars

\* the records whose signature agrees with the query on the compared prefix
Agreeing(query) ==
    {i \in 1..Len(fingerprint_db) :
        /\ fingerprint_db[i].pattern # <<>>
        /\ \A n \in 1..Min(Len(query), Len(fingerprint_db[i].pattern)) :
              query[n] = fingerprint_db[i].pattern[n]}

\* the query is the signature of a stored record
QueryIsStored ==
    /\ resp.op = "knn"
    /\ resp.query # <<>>
    /\ \E i \in 1..Len(fingerprint_db) : fingerprint_db[i].pattern = resp.query

\* C4 as claimed: a query with the unmodified signature of any stored record
\* returns that record's label, best distance 0 and confidence 0.95.
C4_SelfMatchReturnsOwnLabel ==
    resp.op = "knn" =>
        \A i \in 1..Len(fingerprint_db) :
            (resp.query # <<>> /\ fingerprint_db[i].pattern = resp.query)
                => /\ resp.location = fingerprint_db[i].location
                   /\ resp.top_k[1].distance = 0
                   /\ resp.confidence = 95

\* C4 amended: a query with the unmodified signature of a stored record returns
\* best distance 0 and confidence 0.95, and the label of the first record in
\* store order whose signature agrees with the query on the compared prefix.
C4_SelfMatchReturnsFirstAgreeing ==
    QueryIsStored =>
        /\ resp.top_k[1].distance = 0
        /\ resp.confidence = 95
        /\ \E i \in Agreeing(resp.query) :
              /\ \A j \in Agreeing(resp.query) : i <= j
              /\ resp.location = fingerprint_db[i].location

\* the queried record is not the one returned: an earlier record is a prefix of it
C4_Witness ==
    /\ QueryIsStored
    /\ Len(resp.query) = 3
    /\ resp.confidence = 95
    /\ \E i \in 1..Len(fingerprint_db) :
          /\ fingerprint_db[i].location = resp.location
          /\ Len(fingerprint_db[i].pattern) = 2

NoMatch == resp.location = NoLocation /\ resp.confidence = 0 /\ resp.top_k = <<>>

\* C5: the result is (none, 0, empty list) exactly when the store or the query
\* is empty; otherwise the label is a key of the store, the confidence is not 0
\* and the candidate list is not empty.
C5_NoMatchIffEmpty ==
    resp.op = "knn" =>
        IF fingerprint_db = <<>> \/ resp.query = <<>>
        THEN NoMatch
        ELSE /\ resp.location \in Labels(fingerprint_db)
             /\ resp.confidence # 0
             /\ resp.top_k # <<>>

\* an empty query against a store that has records
C5_Witness ==
    /\ resp.op = "knn"
    /\ fingerprint_db # <<>>
    /\ resp.query = <<>>
    /\ NoMatch

\* the step function of the claim; d2 is the square of the distance
StepOfDistance(d2) ==
    CASE d2 < 25 -> 95
      [] d2 >= 25 /\ d2 < 100 -> 80
      [] d2 >= 100 /\ d2 < 400 -> 60
      [] OTHER -> 30

\* C6: the confidence is the step function of the first candidate's distance
\* (0.95 below 5, 0.80 below 10, 0.60 below 20, else 0.30), whatever k, the
\* similarities and the other candidates are.
C6_ConfidenceIsStepOfBest ==
    (resp.op = "knn" /\ resp.top_k # <<>>)
        => resp.confidence = StepOfDistance(resp.top_k[1].distance)

\* a best candidate at distance exactly 5, with a second candidate
C6_Witness ==
    /\ resp.op = "knn"
    /\ Len(resp.top_k) >= 2
    /\ resp.top_k[1].distance = 25
    /\ resp.confidence = 80

\* C7: the candidate list has min(k, number of records) entries with distinct
\* labels, in ascending distance, none farther than an omitted record, and the
\* best label is that of the first entry.
C7_TopKRanked ==
    (resp.op = "knn" /\ fingerprint_db # <<>> /\ resp.query # <<>>) =>
        LET top == resp.top_k
            chosen == {top[i].location : i \in 1..Len(top)}
        IN  /\ Len(top) = Min(resp.k, Len(fingerprint_db))
            /\ \A i, j \in 1..Len(top) : top[i].location = top[j].location => i = j
            /\ \A i \in 1..(Len(top) - 1) : top[i].distance <= top[i + 1].distance
            /\ chosen \subseteq Labels(fingerprint_db)
            /\ \A i \in 1..Len(top) : \A j \in 1..Len(fingerprint_db) :
                  fingerprint_db[j].location \notin chosen
                      => top[i].distance
                            <= euclidean_distance(resp.query, fingerprint_db[j].pattern)
            /\ resp.location = top[1].location

\* k smaller than the store: a record is omitted, and it is farther than the best
C7_Witness ==
    /\ resp.op = "knn"
    /\ resp.k = 2
    /\ Len(fingerprint_db) = 3
    /\ Len(resp.top_k) = 2
    /\ resp.top_k[1].distance < resp.top_k[2].distance

(***************************************************************************)
(* web_track.py: the status cycle                                          *)
(***************************************************************************)
CALIBRATION ==
    << [room |-> "7413", rssi |-> -44, pos |-> 0],
       [room |-> "7418", rssi |-> -54, pos |-> 8],
       [room |-> "7419", rssi |-> -60, pos |-> 12],
       [room |-> "7420", rssi |-> -65, pos |-> 18],
       [room |-> "7422", rssi |-> -65, pos |-> 28],
       [room |-> "7423", rssi |-> -68, pos |-> 38],
       [room |-> "7424", rssi |-> -68, pos |-> 48],
       [room |-> "7404", rssi |-> -69, pos |-> 55],
       [room |-> "7429", rssi |-> -74, pos |-> 65] >>

\* the dict in key order, positions in metres
ROOM_POSITIONS ==
    << [room |-> "7414",  pos |-> -5], [room |-> "7413",  pos |-> 0],
       [room |-> "STAIR", pos |-> 5],  [room |-> "EV",    pos |-> 10],
       [room |-> "7412",  pos |-> 15], [room |-> "7411",  pos |-> 20],
       [room |-> "7410",  pos |-> 25], [room |-> "7409",  pos |-> 30],
       [room |-> "7408",  pos |-> 35], [room |-> "7407",  pos |-> 40],
       [room |-> "7406",  pos |-> 45], [room |-> "7405",  pos |-> 50],
       [room |-> "7404",  pos |-> 55], [room |-> "7403",  pos |-> 60],
       [room |-> "7401",  pos |-> 65] >>

RSSI_BUFFER_SIZE == 10
POSITION_BUFFER_SIZE == 8
DIRECTION_THRESHOLD == 5
MIN_POSITION_CHANGE == 1
\* line 315: the store size from which the matcher is consulted
FP_MIN_RECORDS == 3
\* line 319: k of the status cycle's query
STATUS_K == 3
\* line 350: the confidence (percent) from which the match is used
FP_CONFIDENCE_MIN == 75
\* raw_rssi when there is no interface
DEFAULT_RSSI == -50

Abs(x) == IF x < 0 THEN -x ELSE x

RECURSIVE GCD(_, _)
GCD(a, b) == IF b = 0 THEN a ELSE GCD(b, a % b)

\* the rational num / den (den > 0) in lowest terms
Rat(num, den) ==
    LET g == GCD(Abs(num), den)
    IN  [num |-> num \div g, den |-> den \div g]

Metres(n) == [num |-> n * POS_UNIT, den |-> 1]

RatDiffReversed(a, b) == Rat(b.num * a.den - a.num * b.den, a.den * b.den)

\* a - b
RatDiff(a, b) == Rat(a.num * b.den - b.num * a.den, a.den * b.den)

AbsLessOrEqual(a, n) == Abs(a.num) <= n * POS_UNIT * a.den

\* |a| < n metres
AbsLess(a, n) == Abs(a.num) < n * POS_UNIT * a.den

\* round(pos, 1), in tenths of a metre
round1(pos) == round_div(10 * pos.num, POS_UNIT * pos.den)

\* rssi_to_position for the RSSI sum / n: the position in units of 1 / POS_UNIT m
rssi_to_position(sum, n) ==
    LET last == Len(CALIBRATION)
        rssi_list == [i \in 1..last |-> CALIBRATION[i].rssi]
        pos_list == [i \in 1..last |-> CALIBRATION[i].pos]
        Within(i) == rssi_list[i] * n >= sum /\ sum >= rssi_list[i + 1] * n
    IN  IF sum >= rssi_list[1] * n THEN pos_list[1] * POS_UNIT
        ELSE IF sum <= rssi_list[last] * n
        THEN pos_list[last] * POS_UNIT + ((rssi_list[last] * n - sum) * POS_UNIT) \div n
        ELSE IF \E i \in 1..(last - 1) : Within(i)
        THEN LET i == CHOOSE i \in 1..(last - 1) :
                          Within(i) /\ \A j \in 1..(i - 1) : ~Within(j)
             IN  pos_list[i] * POS_UNIT
                   + ((rssi_list[i] * n - sum) * (pos_list[i + 1] - pos_list[i]) * POS_UNIT)
                        \div (n * (rssi_list[i] - rssi_list[i + 1]))
        ELSE 0

\* get_nearest_room: the first room of ROOM_POSITIONS at the least distance
get_nearest_room(pos) ==
    LET dist(i) == Abs(pos.num - ROOM_POSITIONS[i].pos * POS_UNIT * pos.den)
        i == CHOOSE i \in 1..Len(ROOM_POSITIONS) :
                 /\ \A j \in 1..Len(ROOM_POSITIONS) : dist(i) <= dist(j)
                 /\ \A j \in 1..(i - 1) : dist(j) > dist(i)
    IN  ROOM_POSITIONS[i].room

room_position_or_origin(room, default) ==
    IF \E i \in 1..Len(ROOM_POSITIONS) : ROOM_POSITIONS[i].room = room
    THEN Metres(ROOM_POSITIONS[CHOOSE i \in 1..Len(ROOM_POSITIONS) :
                                   ROOM_POSITIONS[i].room = room].pos)
    ELSE Metres(0)

\* ROOM_POSITIONS.get(room, default)
room_position(room, default) ==
    IF \E i \in 1..Len(ROOM_POSITIONS) : ROOM_POSITIONS[i].room = room
    THEN Metres(ROOM_POSITIONS[CHOOSE i \in 1..Len(ROOM_POSITIONS) :
                                   ROOM_POSITIONS[i].room = room].pos)
    ELSE default

\* the truth value of a label: None and the empty string are false
Truthy(location) == location # NoLocation /\ location # ""

fuse_low_confidence(fp_location, fp_confidence, rssi_room, rssi_pos) ==
    IF Truthy(fp_location) /\ fp_confidence >= 60
    THEN [room |-> fp_location, pos |-> room_position(fp_location, rssi_pos),
          method |-> "fingerprint"]
    ELSE [room |-> rssi_room, pos |-> rssi_pos, method |-> "rssi"]

\* lines 350-357: the final decision
fuse(fp_location, fp_confidence, rssi_room, rssi_pos) ==
    IF Truthy(fp_location) /\ fp_confidence >= FP_CONFIDENCE_MIN
    THEN [room |-> fp_location, pos |-> room_position(fp_location, rssi_pos),
          method |-> "fingerprint"]
    ELSE [room |-> rssi_room, pos |-> rssi_pos, method |-> "rssi"]

roll_drops_two(buffer, x, size) ==
    IF Len(buffer) + 1 > size THEN Tail(Tail(Append(buffer, x))) ELSE Append(buffer, x)

roll_keeps_oldest(buffer, x, size) ==
    IF Len(buffer) + 1 > size THEN SubSeq(buffer, 1, size) ELSE Append(buffer, x)

\* append to a rolling buffer of the given size
roll(buffer, x, size) ==
    IF Len(buffer) + 1 > size THEN Tail(Append(buffer, x)) ELSE Append(buffer, x)

append_point_restarts(td, point) == [td EXCEPT !.trajectory = <<point>>, !.current = point]

\* lines 378-379: the point joins the trajectory and becomes the current one
append_point(td, point) == [td EXCEPT !.trajectory = Append(@, point), !.current = point]

\* ticks of time.time() per second; round(elapsed, 1) of a whole number of
\* ticks is never a tie
CLOCK_HZ == 25

\* get_status from line 308 on, the smoothed RSSI being rssi_sum / rssi_n: the
\* interface read raw_rssi; scan is what scan_rssi_pattern(15) returns if the
\* cycle calls it
StatusRest(rssi_sum, rssi_n, raw_rssi, scan) ==
    LET available == Len(fingerprint_db) >= FP_MIN_RECORDS
        fp == IF available /\ scan # <<>>
              THEN estimate_location_knn(fingerprint_db, scan, STATUS_K)
              ELSE [location |-> NoLocation, confidence |-> 0, top_k |-> <<>>]
        raw_pos == rssi_to_position(rssi_sum, rssi_n)
        position_buffer1 == roll(position_buffer, raw_pos, POSITION_BUFFER_SIZE)
        smoothed_pos == Rat(SeqSum(position_buffer1), Len(position_buffer1))
        keep == AbsLess(RatDiff(smoothed_pos, last_reported_position), MIN_POSITION_CHANGE)
        rssi_pos == IF keep THEN last_reported_position ELSE smoothed_pos
        rssi_room == get_nearest_room(rssi_pos)
        final == fuse(fp.location, fp.confidence, rssi_room, rssi_pos)
        diff == RatDiff(final.pos, last_stable_position)
        moved == ~AbsLess(diff, DIRECTION_THRESHOLD)
        direction == IF moved THEN (IF diff.num > 0 THEN "forward" ELSE "backward")
                     ELSE "stay"
        point == [time       |-> round_div(10 * (now - tracking_data.start_time), CLOCK_HZ),
                  rssi       |-> round_div(rssi_sum, rssi_n),
                  position   |-> round1(final.pos),
                  room       |-> final.room,
                  method     |-> final.method,
                  confidence |-> IF final.method = "fingerprint"
                                 THEN fp.confidence ELSE None]
    IN  /\ position_buffer' = position_buffer1
        /\ last_reported_position' = rssi_pos
        /\ last_stable_position' = IF moved THEN final.pos ELSE last_stable_position
        /\ tracking_data' =
              IF tracking_data.active
              THEN append_point(tracking_data, point)
              ELSE tracking_data
        /\ status' = [op             |-> "status",
                      raw_rssi       |-> raw_rssi,
                      scan           |-> IF available THEN scan ELSE <<>>,
                      rssi           |-> round_div(rssi_sum, rssi_n),
                      raw_pos        |-> raw_pos,
                      smoothed_pos   |-> smoothed_pos,
                      final_pos      |-> final.pos,
                      position       |-> round1(final.pos),
                      room           |-> final.room,
                      direction      |-> direction,
                      method         |-> final.method,
                      fp_available   |-> available,
                      fp_location    |-> fp.location,
                      fp_confidence  |-> fp.confidence,
                      fp_candidates  |-> [i \in 1..Len(fp.top_k) |-> fp.top_k[i].location],
                      rssi_pos       |-> rssi_pos,
                      fallback_position |-> round1(rssi_pos),
                      fallback_room  |-> rssi_room,
                      tracking       |-> tracking_data.active,
                      trajectory_count |-> Len(tracking_data'.trajectory)]
        /\ cycles' = cycles + 1
        /\ history' = Append(history, [raw_rssi |-> raw_rssi, raw_pos |-> raw_pos])

\* GET /api/status while nothing else runs
GetStatus(raw_rssi, scan) ==
    LET rssi_buffer1 == roll(rssi_buffer, raw_rssi, RSSI_BUFFER_SIZE)
    IN  /\ rssi_buffer' = rssi_buffer1
        /\ StatusRest(SeqSum(rssi_buffer1), Len(rssi_buffer1), raw_rssi, scan)
        /\ UNCHANGED <<estimator_vars, store_vars, server_vars, now>>

StartTrackingResetsSmoothing ==
    /\ tracking_data' = [tracking_data EXCEPT !.active = TRUE, !.start_time = now,
                                              !.trajectory = <<>>]
    /\ rssi_buffer' = <<>>
    /\ position_buffer' = <<>>
    /\ UNCHANGED <<estimator_vars, store_vars, server_vars, last_stable_position,
                   last_reported_position, status, now, cycles, history>>

\* GET /api/start
StartTracking ==
    /\ tracking_data' = [tracking_data EXCEPT !.active = TRUE, !.start_time = now,
                                              !.trajectory = <<>>]
    /\ UNCHANGED <<estimator_vars, store_vars, server_vars, smoothing_vars, status, now, cycles,
                   history>>

StopTrackingClears ==
    /\ tracking_data' = [tracking_data EXCEPT !.active = FALSE, !.trajectory = <<>>]
    /\ UNCHANGED <<estimator_vars, store_vars, server_vars, smoothing_vars, status, now, cycles,
                   history>>

\* GET /api/stop
StopTracking ==
    /\ tracking_data' = [tracking_data EXCEPT !.active = FALSE]
    /\ UNCHANGED <<estimator_vars, store_vars, server_vars, smoothing_vars, status, now, cycles,
                   history>>

\* GET /api/clear
ClearTrajectory ==
    /\ tracking_data' = [tracking_data EXCEPT !.trajectory = <<>>]
    /\ UNCHANGED <<estimator_vars, store_vars, server_vars, smoothing_vars, status, now, cycles,
                   history>>

(***************************************************************************)
(* The status cycle over a loaded store                                    *)
(***************************************************************************)
\* status cycles of a run
MaxCycles == 2
\* interface.rssiValue(): near the origin and far down the corridor
StatusRssi == {DEFAULT_RSSI, -70}
\* the entries logs/fingerprint_db.json may hold at start-up, as the save
\* endpoint writes them: two rooms of ROOM_POSITIONS, a label that is not in
\* ROOM_POSITIONS and the empty label
FusionEntries ==
    << [location |-> "7413", pattern |-> <<-50, -60>>, nsamples |-> 2],
       [location |-> "7412", pattern |-> <<-62, -76>>, nsamples |-> 2],
       [location |-> "LAB",  pattern |-> <<-80, -85>>, nsamples |-> 2],
       [location |-> "",     pattern |-> <<-56, -68>>, nsamples |-> 2] >>
\* stores of 0, 2, 3 and 4 records
FusionStores == {save_all(<<>>, SubSeq(FusionEntries, 1, n)) : n \in {0, 2, 3, 4}}
\* scan_rssi_pattern(15): nothing, or a pattern at distance 0, 5 or 10 from
\* that of "7413" (the last is also that of ""), or the pattern of "LAB"
StatusScans == {<<>>, <<-50, -60>>, <<-53, -64>>, <<-56, -68>>, <<-80, -85>>}

\* import of web_track: load_db has read the file
InitFusion ==
    /\ method = "weighted_centroid"
    /\ InitEstimatorVars
    /\ fingerprint_db \in FusionStores
    /\ db_file = [exists |-> fingerprint_db # <<>>, content |-> fingerprint_db, loadable |-> TRUE]
    /\ resp = [op |-> "init"]
    /\ added = {fingerprint_db[i] : i \in 1..Len(fingerprint_db)}
    /\ InitTrackVars
    /\ InitServerVars

StatusStep ==
    /\ cycles < MaxCycles
    /\ \E raw_rssi \in StatusRssi, scan \in StatusScans : GetStatus(raw_rssi, scan)

NextFusion == StatusStep \/ StartTracking \/ StopTracking \/ ClearTrajectory
SpecFusion == InitFusion /\ [][NextFusion]_vars

MaxHysteresisCycles == 4
\* interface.rssiValue(): -44 then -49 moves the smoothed position by exactly
\* 1 m, -44 then -70 by exactly 5 m
HysteresisRssi == {-44, -49, -70}

\* scan_rssi_pattern(15): nothing, or the pattern of "7412" (at 15 m)
HysteresisScans == {<<>>, <<-62, -76>>}
\* logs/fingerprint_db.json at start-up: absent, or holding three records
HysteresisStores == {<<>>, save_all(<<>>, SubSeq(FusionEntries, 1, 3))}

\* import of web_track: load_db has read the file
InitHysteresis ==
    /\ method = "weighted_centroid"
    /\ InitEstimatorVars
    /\ fingerprint_db \in HysteresisStores
    /\ db_file = [exists |-> fingerprint_db # <<>>, content |-> fingerprint_db, loadable |-> TRUE]
    /\ resp = [op |-> "init"]
    /\ added = {fingerprint_db[i] : i \in 1..Len(fingerprint_db)}
    /\ InitTrackVars
    /\ InitServerVars

HysteresisStep ==
    /\ cycles < MaxHysteresisCycles
    /\ \E raw_rssi \in HysteresisRssi, scan \in HysteresisScans : GetStatus(raw_rssi, scan)

NextHysteresis == HysteresisStep
SpecHysteresis == InitHysteresis /\ [][NextHysteresis]_vars

\* C11: in a status cycle last_reported_position changes only when the newly
\* smoothed position (the mean of the position buffer) differs from it by at
\* least 1.0, and then becomes exactly that smoothed position; otherwise it is
\* retained and the fallback position of the cycle is the retained value.
C11_MinimumChangeHysteresis ==
    [][cycles' # cycles =>
        LET smoothed_pos == Rat(SeqSum(position_buffer'), Len(position_buffer'))
            d == RatDiff(smoothed_pos, last_reported_position)
        IN  IF Abs(d.num) >= 1 * POS_UNIT * d.den
            THEN last_reported_position' = smoothed_pos
            ELSE /\ last_reported_position' = last_reported_position
                 /\ status'.rssi_pos = last_reported_position
                 /\ status'.fallback_position = round1(last_reported_position)]_vars

\* a cycle whose smoothed position moved by less than 1 m from a reported
\* position that an earlier cycle had adopted
C11_Witness ==
    /\ status.op = "status"
    /\ last_reported_position.num # 0
    /\ status.smoothed_pos # last_reported_position
    /\ status.rssi_pos = last_reported_position
    /\ status.fallback_position = round1(last_reported_position)

\* C12 as stated: forward or backward is reported, and the anchor moved, only
\* when the fused position is more than 5.0 from the anchor; a smaller
\* displacement reports "stay" and leaves the anchor.
C12_DirectionOnlyAboveThreshold ==
    [][cycles' # cycles =>
        LET f == status'.final_pos
            a == last_stable_position
            diff == f.num * a.den - a.num * f.den
            exceeds == Abs(diff) > 5 * POS_UNIT * f.den * a.den
            smaller == Abs(diff) < 5 * POS_UNIT * f.den * a.den
        IN  /\ status'.direction \in {"forward", "backward"} => exceeds
            /\ last_stable_position' # last_stable_position => exceeds
            /\ smaller => /\ status'.direction = "stay"
                          /\ last_stable_position' = last_stable_position]_vars

\* C12, amended: forward (backward) is reported exactly when the fused position
\* is at least 5.0 above (below) the anchor, and the anchor then becomes the
\* fused position; for every smaller displacement the cycle reports "stay" and
\* leaves the anchor unchanged.
C12_DirectionFromThreshold ==
    [][cycles' # cycles =>
        LET f == status'.final_pos
            a == last_stable_position
            diff == f.num * a.den - a.num * f.den
        IN  IF Abs(diff) >= 5 * POS_UNIT * f.den * a.den
            THEN /\ status'.direction = (IF diff > 0 THEN "forward" ELSE "backward")
                 /\ last_stable_position' = status'.final_pos
            ELSE /\ status'.direction = "stay"
                 /\ last_stable_position' = last_stable_position]_vars

\* a cycle reported "forward" at a displacement of exactly 5.0 from the initial
\* anchor, and a later one "backward"
C12_Witness ==
    /\ status.op = "status"
    /\ status.direction = "backward"
    /\ status.final_pos = last_stable_position
    /\ cycles >= 3
    /\ position_buffer[2] = 10 * POS_UNIT
    /\ position_buffer[1] = 0

(***************************************************************************)
(* The rolling buffers over long runs                                      *)
(***************************************************************************)
\* status cycles of a run: more than either buffer holds
MaxBufferCycles == 11
\* interface.rssiValue()
BufferRssi == {DEFAULT_RSSI, -70}

BufferStep ==
    /\ cycles < MaxBufferCycles
    /\ \E raw_rssi \in BufferRssi : GetStatus(raw_rssi, <<>>)

NextBuffers == BufferStep
SpecBuffers == InitStore /\ [][NextBuffers]_vars

\* the last Min(Len(xs), size) elements of xs
LastOf(xs, size) == SubSeq(xs, Len(xs) - Min(Len(xs), size) + 1, Len(xs))

\* C13: after n status cycles the RSSI buffer holds the last min(n, 10) raw
\* samples in arrival order and the position buffer the last min(n, 8) derived
\* positions; the smoothed RSSI and position the cycle used are the unweighted
\* means of those buffers.
C13_BuffersHoldLatest ==
    /\ Len(history) = cycles
    /\ rssi_buffer = LastOf([i \in 1..cycles |-> history[i].raw_rssi], 10)
    /\ position_buffer = LastOf([i \in 1..cycles |-> history[i].raw_pos], 8)
    /\ Len(rssi_buffer) = Min(cycles, 10)
    /\ Len(position_buffer) = Min(cycles, 8)
    /\ cycles > 0 =>
          /\ status.raw_pos = rssi_to_position(SeqSum(rssi_buffer), Len(rssi_buffer))
          /\ status.rssi = round_div(SeqSum(rssi_buffer), Len(rssi_buffer))
          /\ status.smoothed_pos = Rat(SeqSum(position_buffer), Len(position_buffer))

\* both buffers have dropped samples, and what they hold is not all alike
C13_Witness ==
    /\ cycles = 11
    /\ Len(rssi_buffer) = 10 /\ Len(position_buffer) = 8
    /\ history[1].raw_rssi # rssi_buffer[1]
    /\ rssi_buffer[1] # rssi_buffer[10]
    /\ position_buffer[1] # position_buffer[8]

\* the largest distance between y and an element of xs
RECURSIVE Spread(_, _)
Spread(xs, y) == IF xs = <<>> THEN 0 ELSE Max(Abs(y - Head(xs)), Spread(Tail(xs), y))

\* |mean(after) - mean(before)| <= |y - mean(before)| / size
DampedByMean(before, after, y, size) ==
    Abs(SeqSum(after) * Len(before) - SeqSum(before) * Len(after)) * size
        <= Abs(y * Len(before) - SeqSum(before)) * Len(after)

\* |mean(after) - mean(before)| <= Spread(before, y) / Min(Len(before) + 1, size)
DampedBySpread(before, after, y, size) ==
    Abs(SeqSum(after) * Len(before) - SeqSum(before) * Len(after)) * Min(Len(before) + 1, size)
        <= Spread(before, y) * Len(before) * Len(after)

\* C14 as stated: whatever a buffer of size N holds (partially filled or
\* full), inserting a sample moves the smoothed value by at most the sample's
\* distance from the previous smoothed value, divided by N.
C14_OutlierDampedByN ==
    [][(cycles' # cycles /\ rssi_buffer # <<>>) =>
          /\ DampedByMean(rssi_buffer, rssi_buffer', status'.raw_rssi, RSSI_BUFFER_SIZE)
          /\ DampedByMean(position_buffer, position_buffer', status'.raw_pos,
                          POSITION_BUFFER_SIZE)]_vars

\* C14, amended: inserting a sample into a buffer that holds m >= 1 samples
\* moves the smoothed value by at most D / min(m + 1, N), where D is the largest
\* distance between the sample and a sample in the buffer.
C14_OutlierDampedByFill ==
    [][(cycles' # cycles /\ rssi_buffer # <<>>) =>
          /\ DampedBySpread(rssi_buffer, rssi_buffer', status'.raw_rssi, RSSI_BUFFER_SIZE)
          /\ DampedBySpread(position_buffer, position_buffer', status'.raw_pos,
                            POSITION_BUFFER_SIZE)]_vars

\* a sample unlike all others entered the full RSSI buffer in the latest cycle
C14_Witness ==
    /\ cycles = 11
    /\ status.raw_rssi = -70
    /\ \A i \in 1..9 : rssi_buffer[i] = DEFAULT_RSSI
    /\ rssi_buffer[10] = -70
    /\ status.rssi = -52

\* C15: the session is Idle or Tracking; only start (to Tracking) and stop (to
\* Idle) change that; a status cycle appends exactly one point to the
\* trajectory when it runs while Tracking and leaves the trajectory unchanged
\* when it runs while Idle.
C15_SessionStateMachine ==
    [][/\ tracking_data'.active \in BOOLEAN
       /\ tracking_data'.active # tracking_data.active =>
             \/ StartTracking /\ tracking_data'.active
             \/ StopTracking /\ ~tracking_data'.active
       /\ cycles' # cycles =>
             /\ tracking_data'.active = tracking_data.active
             /\ IF tracking_data.active
                THEN /\ Len(tracking_data'.trajectory) = Len(tracking_data.trajectory) + 1
                     /\ SubSeq(tracking_data'.trajectory, 1, Len(tracking_data.trajectory))
                           = tracking_data.trajectory
                ELSE tracking_data'.trajectory = tracking_data.trajectory]_vars

\* after start, a cycle and stop, a second cycle ran while Idle
C15_Witness ==
    /\ ~tracking_data.active
    /\ Len(tracking_data.trajectory) = 1
    /\ cycles = 2
    /\ status.op = "status"
    /\ ~status.tracking
    /\ status.trajectory_count = 1

(***************************************************************************)
(* Tracking sessions over time                                             *)
(***************************************************************************)
\* the clock runs up to MaxNow ticks
MaxNow == 4
\* ticks between two requests
TickSteps == {1, 3}

\* time passes between requests
Tick ==
    /\ \E dt \in TickSteps : now + dt <= MaxNow /\ now' = now + dt
    /\ UNCHANGED <<estimator_vars, store_vars, server_vars, smoothing_vars, tracking_data, status,
                   cycles, history>>

SessionStatusStep ==
    /\ cycles < MaxCycles
    /\ GetStatus(DEFAULT_RSSI, <<>>)

NextSession ==
    SessionStatusStep \/ StartTracking \/ StopTracking \/ ClearTrajectory \/ Tick
SpecSession == InitStore /\ [][NextSession]_vars

\* C16: within a tracking session (until the next start or clear) the
\* trajectory only grows at its end: every step other than a start or a clear,
\* stop included, keeps the recorded points as they are and in order, and the
\* elapsed times of successive points never decrease.
C16_TrajectoryAppendOnly ==
    [][LET old == tracking_data.trajectory
           new == tracking_data'.trajectory
       IN  \/ StartTracking
           \/ ClearTrajectory
           \/ /\ Len(new) >= Len(old)
              /\ SubSeq(new, 1, Len(old)) = old
              /\ \A i \in 1..(Len(new) - 1) : new[i].time <= new[i + 1].time]_vars

\* a stopped session holds two points recorded at different elapsed times
C16_Witness ==
    /\ ~tracking_data.active
    /\ Len(tracking_data.trajectory) = 2
    /\ tracking_data.start_time > 0
    /\ tracking_data.trajectory[1].time < tracking_data.trajectory[2].time

(***************************************************************************)
(* The running servers: app.py (background scan thread and request         *)
(* handlers) and web_track.py (request handlers), both started with        *)
(* app.run(threaded=True).  A handler runs in a thread of its own and no    *)
(* call is guarded by a lock, so a call that has begun need not have       *)
(* returned when the next one begins.                                      *)
(***************************************************************************)
RequestThreads == {"request1", "request2"}
\* what scan_sync returns: one beacon near, three alike (at the floor or far)
ServerReadings ==
    {r \in Readings : /\ r["AP-12"] = -62
                      /\ r["AP-11"] \in {-100, -75}
                      /\ r["AP-XX"] = r["AP-11"] /\ r["AP-13"] = r["AP-11"]}

\* points trajectory holds at most (a bound of the model)
MaxPoints == 2

\* app.py: POST /api/start
AppStartTracking ==
    /\ is_tracking' = TRUE
    /\ late' = [late EXCEPT !.points = 0]
    /\ UNCHANGED <<estimator_vars, store_vars, track_vars, running, trajectory, scanner>>

\* app.py: POST /api/stop
AppStopTracking ==
    /\ is_tracking' = FALSE
    /\ late' = [late EXCEPT !.points = 0]
    /\ UNCHANGED <<estimator_vars, store_vars, track_vars, running, trajectory, scanner>>

\* app.py: POST /api/clear
AppClearTrajectory ==
    /\ trajectory' = <<>>
    /\ late' = [late EXCEPT !.cleared = (running["background"].at = "estimate")]
    /\ UNCHANGED <<estimator_vars, store_vars, track_vars, running, is_tracking, scanner>>

\* a thread enters estimator.estimate with the reading it has scanned
EnterEstimate(t, reading) ==
    /\ running[t] = Idle
    /\ Len(trajectory) + Cardinality({u \in Threads : running[u].at = "estimate"}) < MaxPoints
    /\ running' = [running EXCEPT ![t] = [at |-> "estimate", reading |-> reading]]
    /\ late' = IF t = "background" THEN [late EXCEPT !.cleared = FALSE] ELSE late
    /\ UNCHANGED <<estimator_vars, store_vars, track_vars, is_tracking, trajectory, scanner>>

BackgroundEstimateUnchecked ==
    \E reading \in ServerReadings : EnterEstimate("background", reading)

\* app.py background_scan, lines 51-57: the loop calls estimate while tracking
BackgroundEstimate ==
    /\ is_tracking
    /\ \E reading \in ServerReadings : EnterEstimate("background", reading)

\* app.py line 26; POST /api/mode, which can change it, is left out
use_simulation == TRUE

\* app.py simulate_move, lines 198-210
SimulateMove ==
    /\ use_simulation
    /\ \E t \in RequestThreads, reading \in ServerReadings : EnterEstimate(t, reading)

\* estimate returns: the position is cached and handed back, and the caller
\* (background_scan lines 60-69, simulate_move lines 212-219) appends it to the
\* trajectory unless it is None
EstimateReturn ==
    \E t \in Threads :
        /\ running[t].at = "estimate"
        /\ EstimateCall(running[t].reading, None)
        /\ running' = [running EXCEPT ![t] = Idle]
        /\ trajectory' = IF est'.ret # None THEN Append(trajectory, est'.ret) ELSE trajectory
        /\ late' = IF t = "background" /\ est'.ret # None
                   THEN [late EXCEPT !.points = IF is_tracking THEN 0 ELSE @ + 1]
                   ELSE late
        /\ UNCHANGED <<store_vars, track_vars, is_tracking, scanner>>

\* web_track get_status, lines 296-306: the handler has put its sample into
\* the RSSI buffer and formed the smoothed RSSI
StatusBegin ==
    \E t \in RequestThreads, raw_rssi \in StatusRssi :
        LET rssi_buffer1 == roll(rssi_buffer, raw_rssi, RSSI_BUFFER_SIZE)
            begun == Cardinality({u \in Threads : running[u].at = "status"})
        IN  /\ running[t] = Idle
            /\ cycles + begun < MaxCycles
            /\ rssi_buffer' = rssi_buffer1
            /\ running' = [running EXCEPT ![t] =
                              [at |-> "status", raw_rssi |-> raw_rssi,
                               rssi_sum |-> SeqSum(rssi_buffer1),
                               rssi_n |-> Len(rssi_buffer1)]]
            /\ UNCHANGED <<estimator_vars, store_vars, app_vars, position_buffer,
                           last_stable_position, last_reported_position, tracking_data,
                           status, now, cycles, history>>

\* web_track get_status, lines 308-401: the rest of the handler
StatusEnd ==
    \E t \in RequestThreads :
        /\ running[t].at = "status"
        /\ StatusRest(running[t].rssi_sum, running[t].rssi_n, running[t].raw_rssi, <<>>)
        /\ running' = [running EXCEPT ![t] = Idle]
        /\ UNCHANGED <<estimator_vars, store_vars, app_vars, rssi_buffer, now>>

NextServers ==
    \/ AppStartTracking \/ AppStopTracking
    \/ BackgroundEstimate \/ SimulateMove \/ EstimateReturn
    \/ StatusBegin \/ StatusEnd
SpecServers == InitStore /\ [][NextServers]_vars

\* C17: at no time are two executions of estimator.estimate in progress on the
\* shared estimator, nor two executions of the web_track status cycle.
C17_NoOverlappingCycles ==
    /\ Cardinality({t \in Threads : running[t].at = "estimate"}) <= 1
    /\ Cardinality({t \in Threads : running[t].at = "status"}) <= 1

(***************************************************************************)
(* Matching while the store is written (web_track.py, threaded).           *)
(* estimate_location_knn iterates fingerprint_db.items(), the one dict     *)
(* that add_fingerprint and fingerprint_save assign into; a thread switch  *)
(* can fall between two steps of the iteration.  A dict iterator raises    *)
(* RuntimeError at its next step once the dict has changed size, and       *)
(* otherwise yields the value a key has at the time of the step.           *)
(***************************************************************************)
MatchQueries == {<<-50, -60>>}
\* a write replaces the record of "7413" or "7412", or adds that of "EV"
MatchLabels == {"7413", "7412", "EV"}
MatchPatterns == {<<-53, -64>>}

\* estimate_location_knn, lines 129-134: the guard, then the iteration begins
MatchBegin ==
    \E t \in RequestThreads, query \in MatchQueries :
        /\ running[t] = Idle
        /\ IF fingerprint_db = <<>> \/ query = <<>>
           THEN /\ resp' = [op |-> "match", error |-> FALSE, seen |-> <<>>,
                            result |-> estimate_location_knn(fingerprint_db, query, STATUS_K)]
                /\ UNCHANGED running
           ELSE /\ running' = [running EXCEPT ![t] =
                                  [at |-> "match", query |-> query, seen |-> <<>>,
                                   used |-> Len(fingerprint_db), at_start |-> fingerprint_db]]
                /\ UNCHANGED resp
        /\ UNCHANGED <<estimator_vars, track_vars, app_vars, fingerprint_db, db_file, added>>

\* one step of the for loop of line 134, or lines 146-167 after its last step
MatchNext ==
    \E t \in RequestThreads :
        LET r == running[t]
        IN  /\ r.at = "match"
            /\ IF Len(fingerprint_db) # r.used
               THEN /\ resp' = [op |-> "match", error |-> TRUE, seen |-> r.seen,
                                result |-> estimate_location_knn(<<>>, r.query, STATUS_K)]
                    /\ running' = [running EXCEPT ![t] = Idle]
               ELSE IF Len(r.seen) < r.used
               THEN /\ running' = [running EXCEPT ![t].seen =
                                      Append(@, fingerprint_db[Len(r.seen) + 1])]
                    /\ UNCHANGED resp
               ELSE /\ resp' = [op |-> "match", error |-> FALSE, seen |-> r.seen,
                                result |-> estimate_location_knn(r.seen, r.query, STATUS_K)]
                    /\ running' = [running EXCEPT ![t] = Idle]
            /\ UNCHANGED <<estimator_vars, track_vars, app_vars, fingerprint_db, db_file,
                           added>>

\* POST /api/fingerprint/save with one entry, from another request thread
MatchWrite ==
    \E location \in MatchLabels, pattern \in MatchPatterns :
        FingerprintSave(<<[location |-> location, pattern |-> pattern, nsamples |-> 1]>>)

NextMatching == MatchBegin \/ MatchNext \/ MatchWrite
SpecMatching == InitHysteresis /\ [][NextMatching]_vars

\* C18: a matching call that interleaves with writes iterates a mapping that
\* does not change while it is iterated: the store is, throughout the
\* iteration, what it was when the iteration began, and no iteration fails.
C18_MatchingSeesOneMapping ==
    /\ \A t \in Threads : running[t].at = "match" => fingerprint_db = running[t].at_start
    /\ resp.op = "match" => ~resp.error

(***************************************************************************)
(* config.rssi_to_distance over its inputs                                 *)
(***************************************************************************)
\* the RSSI values tried reach MaxBeyond below the floor and above 0
MaxBeyond == 10
DistanceRssi == (RSSI_MIN - MaxBeyond)..MaxBeyond

\* a call of rssi_to_distance
DistanceStep ==
    /\ \E rssi \in DistanceRssi :
          est' = [op |-> "rssi_to_distance", rssi |-> rssi, ret |-> rssi_to_distance(rssi)]
    /\ UNCHANGED <<method, last_position, last_good, store_vars, track_vars, server_vars>>

NextDistance == DistanceStep
SpecDistance == InitStore /\ [][NextDistance]_vars

\* C19: for every RSSI that is >= 0 or <= -100, the floor -100 included,
\* rssi_to_distance returns exactly MAX_DISTANCE (30 m), and for no RSSI does it
\* return more than MAX_DISTANCE.
C19_MaxDistanceOutsideRange ==
    est.op = "rssi_to_distance" =>
        /\ (est.rssi >= 0 \/ est.rssi <= -100) => est.ret = 30 * 30 * 10000
        /\ est.ret <= 30 * 30 * 10000

\* the floor value itself was given and came back as MAX_DISTANCE
C19_Witness ==
    /\ est.op = "rssi_to_distance"
    /\ est.rssi = -100
    /\ est.ret = 30 * 30 * 10000
    /\ PathLossSq(-100) > 30 * 30 * 10000

(***************************************************************************)
(* fingerprint_engine.get_db_stats over the stores the endpoints build     *)
(***************************************************************************)
\* get_db_stats; fp.get("samples", 0) of a record is its samples field
get_db_stats(db) ==
    IF db = <<>>
    THEN [count |-> 0, locations |-> <<>>]
    ELSE [count         |-> Len(db),
          locations     |-> [i \in 1..Len(db) |-> db[i].location],
          total_samples |-> SeqSum([i \in 1..Len(db) |-> db[i].samples])]

\* GET /api/fingerprint/db
DbStats ==
    /\ resp' = [op |-> "stats", stats |-> get_db_stats(fingerprint_db)]
    /\ UNCHANGED <<estimator_vars, track_vars, server_vars, fingerprint_db, db_file, added>>

NextStats == CollectStep \/ SaveStep \/ DbStats
SpecStats == InitStore /\ [][NextStats]_vars

\* C20: after any sequence of store writes, none included, get_db_stats returns
\* the three fields count, locations and total_samples: the number of records,
\* the stored labels, and the sum of the records' sample counts (0 for the
\* empty store).
C20_StatsHasAllFields ==
    resp.op = "stats" =>
        /\ DOMAIN resp.stats = {"count", "locations", "total_samples"}
        /\ resp.stats.count = Len(fingerprint_db)
        /\ resp.stats.locations = [i \in 1..Len(fingerprint_db) |-> fingerprint_db[i].location]
        /\ resp.stats.total_samples
              = SeqSum([i \in 1..Len(fingerprint_db) |-> fingerprint_db[i].samples])

(***************************************************************************)
(* Loading the persisted store                                             *)
(***************************************************************************)
LoadLabels == {"7413", "EV"}
LoadPatterns == {<<-50, -60>>, <<-62, -76>>}
LoadQueries == {<<>>, <<-50, -60>>}

LoadAddStep ==
    \E location \in LoadLabels, p \in LoadPatterns :
        /\ AddFingerprint(location, [location |-> location, pattern |-> p, samples |-> 1,
                                     raw_patterns |-> <<p>>, web |-> FALSE])
        /\ resp' = [op |-> "add"]
        /\ UNCHANGED <<estimator_vars, track_vars, server_vars>>

\* the file becomes unreadable or its text stops being JSON (outside the program)
DamageFile ==
    /\ db_file' = [exists |-> TRUE, content |-> db_file.content, loadable |-> FALSE]
    /\ resp' = [op |-> "damage"]
    /\ UNCHANGED <<estimator_vars, track_vars, server_vars, fingerprint_db, added>>

\* the file is removed (outside the program)
RemoveFile ==
    /\ db_file' = [exists |-> FALSE, content |-> <<>>, loadable |-> TRUE]
    /\ resp' = [op |-> "remove"]
    /\ UNCHANGED <<estimator_vars, track_vars, server_vars, fingerprint_db, added>>

\* a call of load_db
LoadDb ==
    /\ fingerprint_db' = load_db(fingerprint_db, db_file)
    /\ added' = {fingerprint_db'[i] : i \in 1..Len(fingerprint_db')}
    /\ resp' = [op |-> "load", ret |-> fingerprint_db',
                malformed |-> db_file.exists /\ ~db_file.loadable,
                before |-> fingerprint_db]
    /\ UNCHANGED <<estimator_vars, track_vars, server_vars, db_file>>

LoadQueryStep == \E q \in LoadQueries : Knn(q, STATUS_K)

NextLoad == LoadAddStep \/ DamageFile \/ RemoveFile \/ LoadDb \/ LoadQueryStep
SpecLoad == InitStore /\ [][NextLoad]_vars

\* C21: loading a persisted store that exists but is unreadable or corrupt
\* returns normally and leaves the in-memory store empty whatever it held
\* before, and a match that follows the load returns the no-match result.
C21_MalformedFileLoadsEmpty ==
    [][/\ (resp'.op = "load" /\ resp'.malformed)
             => (fingerprint_db' = <<>> /\ resp'.ret = <<>>)
       /\ (resp.op = "load" /\ resp.malformed /\ resp'.op = "knn")
             => (resp'.location = NoLocation /\ resp'.confidence = 0 /\ resp'.top_k = <<>>)]_vars

\* a store of two records was emptied by the load, and a query that is the
\* signature of a record written to the file finds nothing
C21_Witness ==
    /\ resp.op = "knn"
    /\ resp.query # <<>>
    /\ NoMatch
    /\ fingerprint_db = <<>>
    /\ db_file.exists /\ ~db_file.loadable
    /\ Len(db_file.content) = 2

(***************************************************************************)
(* Trilateration on exact distances                                        *)
(***************************************************************************)
\* the synthetic points are on a grid of (MaxGrid + 1) x (MaxGrid + 2) points
MaxGrid == 7
GridPoints == {<<100 * i, 30 * j>> : i \in 0..MaxGrid, j \in -1..MaxGrid}

Colinear(p1, p2, p3) ==
    (p2[1] - p1[1]) * (p3[2] - p1[2]) = (p2[2] - p1[2]) * (p3[1] - p1[1])

\* the sets of three beacons of AP_POSITIONS that are not on one line
BeaconTriples ==
    {T \in SUBSET DOMAIN AP_POSITIONS :
        /\ Cardinality(T) = 3
        /\ \A a, b, c \in T :
              (a # b /\ b # c /\ a # c)
                  => ~Colinear(AP_POSITIONS[a], AP_POSITIONS[b], AP_POSITIONS[c])}

\* the geometric distance from a point to a beacon, as its square in cm^2
ExactDistance(point, ap) ==
    ((point[1] - AP_POSITIONS[ap][1]) * (point[1] - AP_POSITIONS[ap][1])
     + (point[2] - AP_POSITIONS[ap][2]) * (point[2] - AP_POSITIONS[ap][2])) * 100

\* the inputs of a call: a synthetic point and three beacons
InitTrilateration ==
    /\ method = "trilateration"
    /\ last_position = None
    /\ last_good = None
    /\ est \in {[op |-> "point", point |-> point, beacons |-> T, ret |-> None] :
                   point \in GridPoints, T \in BeaconTriples}
    /\ InitStoreVars
    /\ InitTrackVars
    /\ InitServerVars

\* a call of _trilateration with the exact distances of the point to the beacons
TrilaterationStep ==
    /\ est.op = "point"
    /\ est' = [est EXCEPT !.op = "trilateration",
                          !.ret = _trilateration([ap \in est.beacons |->
                                                     ExactDistance(est.point, ap)])]
    /\ UNCHANGED <<method, last_position, last_good, store_vars, track_vars, server_vars>>

NextTrilateration == TrilaterationStep
SpecTrilateration == InitTrilateration /\ [][NextTrilateration]_vars

\* C22: for every grid point and every three non-colinear beacons,
\* _trilateration given the exact distances from the point to those beacons
\* returns that point.
C22_ExactDistancesRecoverPoint ==
    est.op = "trilateration" => est.ret = est.point

\* a point off the corridor line recovered from two corridor beacons and the
\* beacon 4 dm off that line
C22_Witness ==
    /\ est.op = "trilateration"
    /\ est.beacons = {"AP-12", "AP-07", "AP-7413"}
    /\ est.point = <<300, 150>>
    /\ est.ret = est.point

(***************************************************************************)
(* Trilateration on the distances estimate keeps                           *)
(***************************************************************************)
InitFallback ==
    /\ method = "trilateration"
    /\ last_position = None
    /\ last_good = None
    /\ est \in {[op |-> "reading", reading |-> reading, ret |-> None] : reading \in Readings}
    /\ InitStoreVars
    /\ InitTrackVars
    /\ InitServerVars

\* a call of _trilateration with the in-range distances of the reading
FallbackStep ==
    /\ est.op = "reading"
    /\ est' = [est EXCEPT !.op = "_trilateration",
                          !.ret = _trilateration(distances_of(est.reading))]
    /\ UNCHANGED <<method, last_position, last_good, store_vars, track_vars, server_vars>>

NextFallback == FallbackStep
SpecFallback == InitFallback /\ [][NextFallback]_vars

\* the three beacons with the smallest distances are on one line
NearestColinear(distances) ==
    LET all == SortedAPs(distances, DOMAIN distances)
    IN  /\ Len(all) >= 3
        /\ Colinear(AP_POSITIONS[all[1]], AP_POSITIONS[all[2]], AP_POSITIONS[all[3]])

\* C23: whenever the three beacons with the smallest distances are colinear
\* (a singular coefficient matrix), _trilateration returns the weighted
\* centroid over all in-range beacons of the reading, and that is a position.
C23_SingularFallsBackToCentroid ==
    (est.op = "_trilateration" /\ NearestColinear(distances_of(est.reading)))
        => /\ est.ret = _weighted_centroid(distances_of(est.reading))
           /\ est.ret # None

\* three corridor beacons nearest and a fourth, farther beacon off the line
\* that pulls the centroid off the corridor
C23_Witness ==
    /\ est.op = "_trilateration"
    /\ NearestColinear(distances_of(est.reading))
    /\ DOMAIN distances_of(est.reading) = {"AP-12", "AP-11", "AP-XX", "AP-13"}
    /\ est.ret # None
    /\ est.ret[2] > AP_POSITIONS["AP-12"][2]

(***************************************************************************)
(* The signature of a collected record                                     *)
(***************************************************************************)
\* C24: the signature made by collect_fingerprint is as long as the longest
\* scan vector, and its element at each rank is the average, rounded to an
\* integer, of the values of exactly those scans that have that rank; empty
\* and shorter scans neither block nor contribute to ranks they lack.
C24_SignatureIsRankwiseMean ==
    \A n \in 1..Len(fingerprint_db) :
        LET r == fingerprint_db[n]
            raw == r.raw_patterns
        IN  ~r.web =>
              /\ \A j \in 1..Len(raw) : Len(raw[j]) <= Len(r.pattern)
              /\ \E j \in 1..Len(raw) : Len(raw[j]) = Len(r.pattern)
              /\ Len(r.pattern) <= WEB_TOP_N
              /\ \A i \in 1..Len(r.pattern) :
                    LET has == {j \in 1..Len(raw) : i <= Len(raw[j])}
                        total == SumOver([j \in has |-> raw[j][i]], has)
                    IN  2 * Abs(Cardinality(has) * r.pattern[i] - total) <= Cardinality(has)

\* a short and a long scan: rank 1 averages both, rank 2 only the long one
C24_Witness ==
    /\ resp.op = "collect" /\ resp.status = 200 /\ resp.valid = 2
    /\ \E n \in 1..Len(fingerprint_db) :
          /\ fingerprint_db[n].raw_patterns = <<<<-53>>, <<-50, -61>>>>
          /\ fingerprint_db[n].pattern = <<-52, -61>>

(***************************************************************************)
(* Numeric edge cases                                                      *)
(***************************************************************************)
\* vectors with zero values, whole or only on a prefix
EdgePatterns == {<<>>, <<0>>, <<0, 0>>, <<0, -50>>, <<-60>>, <<-50, -60>>}
\* distance dicts with zero distances (squares, cm^2)
EdgeDistances == UNION {[S -> {0, 10000, 90000}] : S \in SUBSET {"AP-12", "AP-13"}}

EdgeInputs ==
    {[op |-> "patterns", pattern1 |-> p1, pattern2 |-> p2] : p1, p2 \in EdgePatterns}
    \cup {[op |-> "distances", distances |-> d] : d \in EdgeDistances}
    \cup {[op |-> "reading", reading |-> reading] : reading \in Readings}

InitEdge ==
    /\ method \in Methods
    /\ last_position = None
    /\ last_good = None
    /\ est \in EdgeInputs
    /\ InitStoreVars
    /\ InitTrackVars
    /\ InitServerVars

EdgeCosine ==
    /\ est.op = "patterns"
    /\ est' = [op |-> "cosine_similarity", pattern1 |-> est.pattern1, pattern2 |-> est.pattern2,
               ret |-> cosine_similarity(est.pattern1, est.pattern2)]
    /\ UNCHANGED <<method, last_position, last_good, store_vars, track_vars, server_vars>>

EdgeCentroid ==
    /\ est.op = "distances"
    /\ est' = [op |-> "_weighted_centroid", distances |-> est.distances,
               ret |-> _weighted_centroid(est.distances)]
    /\ UNCHANGED <<method, last_position, last_good, store_vars, track_vars, server_vars>>

EdgeEstimate ==
    /\ est.op = "reading"
    /\ \E nm \in (IF method = "least_squares" THEN NM_RESULTS ELSE {None}) :
          Estimate(est.reading, nm)

NextEdge == EdgeCosine \/ EdgeCentroid \/ EdgeEstimate
SpecEdge == InitEdge /\ [][NextEdge]_vars

\* both coordinates are numbers
Defined(position) ==
    /\ Len(position) = 2
    /\ position[1] \in Int
    /\ position[2] \in Int

\* C25: cosine_similarity returns 0 (and divides by nothing that is 0) whenever
\* either vector cut to the overlapping prefix has zero magnitude,
\* _weighted_centroid returns none whenever the total weight is zero, and
\* estimate never returns a position with an undefined coordinate.
C25_NoUndefinedResult ==
    /\ est.op = "cosine_similarity" =>
          LET n == Min(Len(est.pattern1), Len(est.pattern2))
              ZeroPrefix(p) == \A i \in 1..n : p[i] = 0
          IN  /\ est.ret.den1 > 0 /\ est.ret.den2 > 0
              /\ (ZeroPrefix(est.pattern1) \/ ZeroPrefix(est.pattern2)) => est.ret.num = 0
    /\ est.op = "_weighted_centroid" =>
          /\ (\A ap \in DOMAIN est.distances : est.distances[ap] <= 0) => est.ret = None
          /\ est.ret # None => Defined(est.ret)
    /\ est.op = "estimate" => (est.ret = None \/ Defined(est.ret))

\* a vector that is not zero as a whole but is zero on the overlapping prefix
C25_Witness ==
    /\ est.op = "cosine_similarity"
    /\ est.pattern1 = <<0, -50>>
    /\ est.pattern2 = <<-60>>
    /\ est.ret.num = 0

(***************************************************************************)
(* Smoothing state across sessions                                         *)
(***************************************************************************)
\* C26: start_tracking changes only the session record (active, start time,
\* trajectory emptied) and leaves the RSSI buffer, the position buffer,
\* last_reported_position and last_stable_position unchanged; a status cycle
\* updates those four whether the session is Idle or Tracking.
C26_SmoothingOutlivesSessions ==
    [][/\ cycles' = cycles => UNCHANGED smoothing_vars
       /\ (tracking_data'.active /\ ~tracking_data.active) =>
             /\ UNCHANGED smoothing_vars
             /\ tracking_data' = [active |-> TRUE, start_time |-> now, trajectory |-> <<>>,
                                  current |-> tracking_data.current]
       /\ cycles' # cycles =>
             /\ rssi_buffer' = LastOf(Append(rssi_buffer, status'.raw_rssi), RSSI_BUFFER_SIZE)
             /\ position_buffer'
                   = LastOf(Append(position_buffer, status'.raw_pos), POSITION_BUFFER_SIZE)
             /\ last_reported_position' = status'.rssi_pos
             /\ last_stable_position'
                   = (IF status'.direction = "stay" THEN last_stable_position
                                                    ELSE status'.final_pos)]_vars

\* a cycle ran while Idle, then the session was started: the first point of the
\* session carries the mean of the sample from before the session and its own
C26_Witness ==
    /\ tracking_data.active
    /\ Len(tracking_data.trajectory) = 1
    /\ cycles = 2
    /\ rssi_buffer = <<-70, DEFAULT_RSSI>>
    /\ Len(position_buffer) = 2
    /\ tracking_data.trajectory[1].rssi = -60

(***************************************************************************)
(* app.py: the background scan loop against stop and clear                 *)
(***************************************************************************)
NextBackground ==
    \/ AppStartTracking \/ AppStopTracking \/ AppClearTrajectory
    \/ BackgroundEstimate \/ SimulateMove \/ EstimateReturn
SpecBackground == InitStore /\ [][NextBackground]_vars

\* C27: once stop_tracking has returned, the background loop appends at most
\* one further point (that of a cycle already past its is_tracking check) and
\* then none until start_tracking is called; the loop is then between cycles.
C27_AtMostOneLatePoint ==
    ~is_tracking =>
        /\ late.points <= 1
        /\ late.points = 1 => running["background"] = Idle

\* stop and clear came while a cycle was in flight: its point is the only one
\* in the trajectory
C27_Witness ==
    /\ ~is_tracking
    /\ late.points = 1
    /\ late.cleared
    /\ Len(trajectory) = 1
    /\ running["background"] = Idle

(***************************************************************************)
(* ble_scanner.py: the BLE scanner in front of the estimator (main.py)     *)
(***************************************************************************)
RSSI_FILTER_WINDOW == 5
\* scans of a run
MaxScans == 2
\* the beacons within radio range of the device
Detectable == {"AP-12", "AP-11", "AP-13"}
\* device.rssi: every mean of up to RSSI_FILTER_WINDOW of these is a whole number
RawRssi == {-30, -90}
\* BleakScanner.discover: the beacons found, with their RSSI
Discoveries == UNION {[D -> RawRssi] : D \in SUBSET Detectable}

\* sum(rssi_history[ap]) / len(rssi_history[ap]), a whole number for the values of RawRssi
filtered_rssi(samples) == SeqSum(samples) \div Len(samples)

\* scan_once, lines 54-77: the scanner after a scan that found devices
scan_once(sc, devices) ==
    LET rssi_history == [ap \in DOMAIN sc.rssi_history |->
                            IF ap \in DOMAIN devices
                            THEN roll(sc.rssi_history[ap], devices[ap], RSSI_FILTER_WINDOW)
                            ELSE sc.rssi_history[ap]]
        result == [ap \in DOMAIN AP_POSITIONS |->
                      IF ap \in DOMAIN devices THEN filtered_rssi(rssi_history[ap])
                                                ELSE RSSI_MIN]
    IN  [rssi_history |-> rssi_history, last_rssi |-> result,
         detected |-> DOMAIN devices, scans |-> sc.scans + 1]

\* scan_once, lines 79-83: discover raised
scan_failed(sc) ==
    [rssi_history |-> sc.rssi_history, last_rssi |-> [ap \in DOMAIN AP_POSITIONS |-> RSSI_MIN],
     detected |-> {}, scans |-> sc.scans + 1]

\* main.py lines 64-73: a scan, then estimate on its result
ScanCycle ==
    /\ scanner.scans < MaxScans
    /\ \E devices \in Discoveries : scanner' = scan_once(scanner, devices)
    /\ EstimateCall(scanner'.last_rssi, None)
    /\ UNCHANGED <<store_vars, track_vars, running, is_tracking, trajectory, late>>

FailedScanCycle ==
    /\ scanner.scans < MaxScans
    /\ scanner' = scan_failed(scanner)
    /\ EstimateCall(scanner'.last_rssi, None)
    /\ UNCHANGED <<store_vars, track_vars, running, is_tracking, trajectory, late>>

\* the estimator with a method whose result the distances determine
InitScanner ==
    /\ method \in Methods \ {"least_squares"}
    /\ InitEstimatorVars
    /\ InitStoreVars
    /\ InitTrackVars
    /\ InitServerVars

NextScanner == ScanCycle \/ FailedScanCycle
SpecScanner == InitScanner /\ [][NextScanner]_vars

C29_SamplesIsRequestedCount ==
    /\ (resp.op = "collect" /\ resp.status = 200) =>
          \E n \in 1..Len(fingerprint_db) :
              /\ fingerprint_db[n].location = resp.location
              /\ ~fingerprint_db[n].web
              /\ fingerprint_db[n].samples = resp.samples
              /\ Len(fingerprint_db[n].raw_patterns) = resp.valid
    /\ (resp.op = "stats" /\ fingerprint_db # <<>>) =>
          resp.stats.total_samples
              = SeqSum([n \in 1..Len(fingerprint_db) |-> fingerprint_db[n].samples])

\* the store holds one record, collected from two scans of which one yielded a
\* vector: the stats count two samples
C29_Witness ==
    /\ resp.op = "stats"
    /\ Len(fingerprint_db) = 1
    /\ ~fingerprint_db[1].web
    /\ Len(fingerprint_db[1].raw_patterns) = 1
    /\ fingerprint_db[1].samples = 2
    /\ resp.stats.total_samples = 2

(***************************************************************************)
(* The position of a fingerprint cycle                                     *)
(***************************************************************************)
\* C30: in a status cycle whose method is "fingerprint" the room is the matched
\* label and the position is that label's entry in ROOM_POSITIONS, or, when
\* the label has no entry, the hysteresis-filtered interpolation position of
\* the cycle; the interpolation buffers and last_reported_position are updated
\* in every cycle whatever the method.
C30_FingerprintPosition ==
    [][cycles' # cycles =>
        LET entries == {i \in 1..Len(ROOM_POSITIONS) :
                           ROOM_POSITIONS[i].room = status'.fp_location}
            smoothed_pos == Rat(SeqSum(position_buffer'), Len(position_buffer'))
        IN  /\ status'.method = "fingerprint" =>
                  /\ status'.room = status'.fp_location
                  /\ \A i \in entries :
                        /\ status'.final_pos = [num |-> ROOM_POSITIONS[i].pos * POS_UNIT, den |-> 1]
                        /\ status'.position = 10 * ROOM_POSITIONS[i].pos
                  /\ entries = {} =>
                        /\ status'.final_pos = last_reported_position'
                        /\ status'.position = status'.fallback_position
            /\ rssi_buffer' = LastOf(Append(rssi_buffer, status'.raw_rssi), RSSI_BUFFER_SIZE)
            /\ position_buffer'
                  = LastOf(Append(position_buffer, status'.raw_pos), POSITION_BUFFER_SIZE)
            /\ status'.rssi_pos = last_reported_position'
            /\ last_reported_position' \in {last_reported_position, smoothed_pos}]_vars

\* the match is a label that ROOM_POSITIONS does not have: the cycle reports
\* that label at the interpolation position, 4.8 m
C30_Witness ==
    /\ status.op = "status"
    /\ status.method = "fingerprint"
    /\ status.fp_location = "LAB"
    /\ status.room = "LAB"
    /\ status.final_pos = last_reported_position
    /\ status.position = 48

====
